---- MODULE Spec2Model ----
(***************************************************************************)
(* Model of the content pipeline of pages/_sites/[site]/[slug].tsx:        *)
(* getMdxSource, replaceAsync, getExamples and getTweetMetadata.           *)
(*                                                                         *)
(* A text is a sequence of lexemes (strings); the text it stands for is    *)
(* the concatenation of its lexemes.  The lexemes are the literal chunks   *)
(* of the regular expressions of the source, single digits, and a few      *)
(* chunks of plain text, so that every regular expression of the source    *)
(* matches on lexeme boundaries.  "" is the empty sequence.                *)
(***************************************************************************)
EXTENDS Integers, Sequences, FiniteSets

(* ------------------------------ bounds --------------------------------- *)
MaxFrags == 2        \* blocks of one rendered document
MaxIds == 2          \* ids in one bracket list

(* ------------------------------ lexemes -------------------------------- *)
NL == "\n"
DigitSeq == <<"0", "1", "2", "3", "4", "5", "6", "7", "8", "9">>
Digits == {DigitSeq[k] : k \in 1..10}
\* lexemes every character of which is matched by \w
WordLex == Digits \cup {"user", "x", "t", "s", "es", "about", "http"}
\* lexemes that are one character long
OneChar == Digits \cup {" ", ",", "]", "/", "?", ">", "x", "t", "s", "\"", NL}

Max(S) == CHOOSE m \in S : \A n \in S : n <= m
Min(S) == CHOOSE m \in S : \A n \in S : m <= n

\* "." of a regular expression without the s flag: anything but a newline
NoNewline(s, a, b) == \A k \in a..b : s[k] # NL

At(s, i) == IF i >= 1 /\ i <= Len(s) THEN s[i] ELSE "<eof>"

(* ------------------------- numbers and JSON ---------------------------- *)
DigitVal(c) == (CHOOSE k \in 1..10 : DigitSeq[k] = c) - 1

RECURSIVE DigitsValue(_, _)
DigitsValue(ds, acc) ==
  IF ds = <<>> THEN acc
  ELSE DigitsValue(Tail(ds), acc * 10 + DigitVal(Head(ds)))

RECURSIVE ToDigits(_)
\* Number.prototype.toString / JSON.stringify of a non-negative integer
ToDigits(n) ==
  IF n < 10 THEN <<DigitSeq[n + 1]>>
  ELSE ToDigits(n \div 10) \o <<DigitSeq[(n % 10) + 1]>>

\* parseInt yields no negative number here (no lexeme is a sign): -1 is NaN
NaN == 0 - 1

RECURSIVE SkipWs(_)
SkipWs(tok) ==
  IF tok # <<>> /\ Head(tok) \in {" ", NL} THEN SkipWs(Tail(tok)) ELSE tok

RECURSIVE DigitRun(_)
DigitRun(tok) ==
  IF tok # <<>> /\ Head(tok) \in Digits
  THEN <<Head(tok)>> \o DigitRun(Tail(tok)) ELSE <<>>

\* a variant that reads the first digit only
ParseIntFirstDigit(tok) ==
  LET ds == DigitRun(SkipWs(tok))
  IN  IF ds = <<>> THEN NaN ELSE DigitVal(Head(ds))

\* parseInt(names[i]): leading white space is skipped, the longest run of
\* digits is read, whatever follows is ignored; NaN without a digit
ParseInt(tok) ==
  LET ds == DigitRun(SkipWs(tok))
  IN  IF ds = <<>> THEN NaN ELSE DigitsValue(ds, 0)

RECURSIVE Split(_, _)
\* String.prototype.split(","): always at least one token
Split(s, cur) ==
  IF s = <<>> THEN <<cur>>
  ELSE IF Head(s) = "," THEN <<cur>> \o Split(Tail(s), <<>>)
  ELSE Split(Tail(s), Append(cur, Head(s)))

Null == [null |-> TRUE]

\* JSON.stringify of one example record or of null
JsonItem(r) ==
  IF r = Null THEN <<"null">>
  ELSE <<"{\"id\":">> \o ToDigits(r.id) \o <<"}">>

RECURSIVE JsonItems(_)
JsonItems(data) ==
  IF data = <<>> THEN <<>>
  ELSE IF Len(data) = 1 THEN JsonItem(data[1])
  ELSE JsonItem(data[1]) \o <<",">> \o JsonItems(Tail(data))

\* JSON.stringify(data) for the array built by getExamples
JsonArray(data) == <<"[">> \o JsonItems(data) \o <<"]">>

\* JSON.stringify(tweetData)
JsonTweet(t) == <<"{\"id\":\"">> \o t.id \o <<"\"}">>

(* ------------------------ regular expressions -------------------------- *)
ExamplesRe == "ExamplesRe"
TweetRe == "TweetRe"

\* /<Examples (.*)\/>/g tried at position i: the index of the last lexeme
\* of the match, 0 when there is none.  (.*) is greedy: it runs to the
\* last "/>" of the line.
ExamplesReEnd(s, i) ==
  IF At(s, i) = "<Examples" /\ At(s, i + 1) = " "
  THEN LET ends == {j \in (i + 2)..Len(s) :
                      s[j] = "/>" /\ NoNewline(s, i + 2, j - 1)}
       IN  IF ends = {} THEN 0 ELSE Max(ends)
  ELSE 0

\* the rest of the social-post pattern, (\?.*)?<\/p>, tried at position q
TweetTail(s, q) ==
  IF At(s, q) = "?"
  THEN LET ends == {j \in (q + 1)..Len(s) :
                      s[j] = "</p>" /\ NoNewline(s, q + 1, j - 1)}
       IN  IF ends = {} THEN 0 ELSE Max(ends)
  ELSE IF At(s, q) = "</p>" THEN q
  ELSE 0

\* (\d+)([^\?])(\?.*)?<\/p> tried at position p.  \d+ is greedy; when the
\* character after the digits cannot be taken by [^\?], \d+ gives back its
\* last digit, which [^\?] then takes.
TweetIdTail(s, p) ==
  LET n == Len(DigitRun(SubSeq(s, p, Len(s))))
      c == At(s, p + n)
      a == IF n >= 1 /\ c \in OneChar /\ c # "?"
           THEN TweetTail(s, p + n + 1) ELSE 0
      b == IF n >= 2 THEN TweetTail(s, p + n) ELSE 0
  IN  IF a # 0 THEN a ELSE b

RECURSIVE WordRun(_, _)
WordRun(s, i) ==
  IF At(s, i) \in WordLex THEN 1 + WordRun(s, i + 1) ELSE 0

\* /<p>(https?:\/\/twitter\.com\/(?:#!\/)?(\w+)\/status(?:es)?\/(\d+)([^\?])(\?.*)?<\/p>)/g
TweetReEnd(s, i) ==
  IF At(s, i) = "<p>"
     /\ At(s, i + 1) \in {"https://twitter.com/", "http://twitter.com/"}
  THEN LET h == IF At(s, i + 2) = "#!/" THEN i + 3 ELSE i + 2
           w == WordRun(s, h)
           g == h + w
           d == IF At(s, g + 1) = "es" THEN g + 2 ELSE g + 1
       IN  IF w >= 1 /\ At(s, g) = "/status" /\ At(s, d) = "/"
           THEN TweetIdTail(s, d + 1) ELSE 0
  ELSE 0

MatchEnd(regex, s, i) ==
  IF regex = ExamplesRe THEN ExamplesReEnd(s, i) ELSE TweetReEnd(s, i)

RECURSIVE ScanFrom(_, _, _)
\* one pass of String.prototype.replace with a global pattern: the matches
\* from left to right, each search resuming after the previous match
ScanFrom(regex, s, i) ==
  IF i > Len(s) THEN <<>>
  ELSE LET e == MatchEnd(regex, s, i)
       IN  IF e = 0 THEN ScanFrom(regex, s, i + 1)
           ELSE <<[from |-> i, to |-> e]>> \o ScanFrom(regex, s, e + 1)

\* /\/status\/(\d+)/gm.exec(tweetUrl): <<>> for null, else <<id[0], id[1]>>
TweetIdExec(url) ==
  LET hits == {k \in 1..Len(url) :
                 url[k] = "/status" /\ At(url, k + 1) = "/"
                 /\ At(url, k + 2) \in Digits}
  IN  IF hits = {} THEN <<>>
      ELSE LET k == Min(hits)
               ds == DigitRun(SubSeq(url, k + 2, Len(url)))
           IN  <<SubSeq(url, k, k + 1) \o ds, ds>>

\* /names=\[(.+)\]/gm.exec(str): <<>> for null, else <<raw[1]>>.  (.+) is
\* greedy and needs one character at least.
NamesExec(str) ==
  LET hits == {k \in 1..Len(str) :
                 str[k] = "names=["
                 /\ \E j \in (k + 2)..Len(str) :
                      str[j] = "]" /\ NoNewline(str, k + 1, j - 1)}
  IN  IF hits = {} THEN <<>>
      ELSE LET k == Min(hits)
               j == Max({j \in (k + 2)..Len(str) :
                           str[j] = "]" /\ NoNewline(str, k + 1, j - 1)})
           IN  <<SubSeq(str, k + 1, j - 1)>>

(* --------------------------- link rewriting ---------------------------- *)
LexPairs(s) == (1..Len(s)) \X (1..Len(s))

\* /<a (href="http(s)?.+?")>(.+?)(?=<\/a>)/g tried at i, .+? starting at q:
\* the pairs <<m, e>> where m is the closing quote and e the last lexeme of
\* the link text
ExtLinkFrom(s, q) ==
  {me \in LexPairs(s) :
     /\ me[1] >= q + 1 /\ s[me[1]] = "\"" /\ At(s, me[1] + 1) = ">"
     /\ NoNewline(s, q, me[1] - 1)
     /\ me[2] >= me[1] + 2 /\ At(s, me[2] + 1) = "</a>"
     /\ NoNewline(s, me[1] + 2, me[2])}

\* the lazy choice: the nearest closing quote, then the shortest link text
Lazy(S) ==
  LET m == Min({me[1] : me \in S})
  IN  <<m, Min({me[2] : me \in {x \in S : x[1] = m}})>>

ExtLinkMatch(s, i) ==
  IF At(s, i) = "<a " /\ At(s, i + 1) = "href=\"" /\ At(s, i + 2) = "http"
  THEN LET withS == IF At(s, i + 3) = "s" THEN ExtLinkFrom(s, i + 4) ELSE {}
           without == ExtLinkFrom(s, i + 3)
       IN  IF withS # {} THEN Lazy(withS)
           ELSE IF without # {} THEN Lazy(without) ELSE <<>>
  ELSE <<>>

RECURSIVE ReplaceExternalLinks(_, _)
\* contentHtml.replace(..., <a target="_blank" $1>$3 [arrow])
ReplaceExternalLinks(s, i) ==
  IF i > Len(s) THEN <<>>
  ELSE LET me == ExtLinkMatch(s, i)
       IN  IF me = <<>> THEN <<s[i]>> \o ReplaceExternalLinks(s, i + 1)
           ELSE <<"<a ", "target=\"_blank\"", " ">> \o SubSeq(s, i + 1, me[1])
                \o <<">">> \o SubSeq(s, me[1] + 2, me[2]) \o <<" U+2197">>
                \o ReplaceExternalLinks(s, me[2] + 1)

\* /<a href="\/(.+?)">(.+?)<\/a>/g tried at i: <<m, e>>, m the closing
\* quote and e the "</a>"
IntLinkMatch(s, i) ==
  IF At(s, i) = "<a " /\ At(s, i + 1) = "href=\"" /\ At(s, i + 2) = "/"
  THEN LET S == {me \in LexPairs(s) :
                   /\ me[1] >= i + 4 /\ s[me[1]] = "\""
                   /\ At(s, me[1] + 1) = ">"
                   /\ NoNewline(s, i + 3, me[1] - 1)
                   /\ me[2] >= me[1] + 3 /\ s[me[2]] = "</a>"
                   /\ NoNewline(s, me[1] + 2, me[2] - 1)}
       IN  IF S = {} THEN <<>> ELSE Lazy(S)
  ELSE <<>>

RECURSIVE ReplaceInternalLinks(_, _)
\* replacedExternalLinks.replace(...,
\*   <Link href="/$1"><a className="cursor-pointer">$2</a></Link>)
ReplaceInternalLinks(s, i) ==
  IF i > Len(s) THEN <<>>
  ELSE LET me == IntLinkMatch(s, i)
       IN  IF me = <<>> THEN <<s[i]>> \o ReplaceInternalLinks(s, i + 1)
           ELSE <<"<Link ", "href=\"", "/">> \o SubSeq(s, i + 3, me[1] - 1)
                \o <<"\"", ">", "<a ", "className=\"cursor-pointer\"", ">">>
                \o SubSeq(s, me[1] + 2, me[2] - 1) \o <<"</a>", "</Link>">>
                \o ReplaceInternalLinks(s, me[2] + 1)

(* ------------------------ external collaborators ----------------------- *)
ExampleIds == {3, 31}
\* the ids the example store holds a record for
StoredIds == {3}

\* prisma.example.findUnique({where: {id}}) when it answers
FindUnique(id) == IF id \in StoredIds THEN [id |-> id] ELSE Null

\* getTweets(id) when it answers
GetTweets(id) == [id |-> id]

(* ------------------------------ documents ------------------------------ *)
RECURSIVE JoinIds(_)
JoinIds(ids) ==
  IF Len(ids) = 1 THEN ToDigits(ids[1])
  ELSE ToDigits(ids[1]) \o <<",">> \o JoinIds(Tail(ids))

IdLists == UNION {[1..n -> ExampleIds] : n \in 1..MaxIds}

\* <Examples names=[id1,...,idk]/>
Directive(ids) ==
  <<"<Examples", " ", "names=[">> \o JoinIds(ids) \o <<"]", "/>">>

NoListNoSpace == <<"<Examples", "/>">>
NoListSpace == <<"<Examples", " ", "/>">>
\* two directives on one line
TwoOnLine == Directive(<<3>>) \o <<"x">> \o Directive(<<31>>)

TweetId == <<"1", "2", "3">>

\* <p>https://twitter.com/user/status(es)/123...</p>
TweetPara(seg, tail) ==
  <<"<p>", "https://twitter.com/", "user">> \o seg \o <<"/">> \o TweetId
  \o tail \o <<"</p>">>

StatusSeg == <<"/status">>
StatusesSeg == <<"/status", "es">>
QueryTail == <<"?", "s=09">>

\* a paragraph with an external and an internal link
LinkPara ==
  <<"<p>", "<a ", "href=\"", "http", "s", "://e.com", "\"", ">", "t",
    "</a>", "x", "<a ", "href=\"", "/", "about", "\"", ">", "t", "</a>",
    "</p>">>

\* the blocks that documents of several blocks are made of
Frags ==
  {Directive(<<3>>), Directive(<<31, 3>>), NoListNoSpace, NoListSpace,
   TwoOnLine, LinkPara, TweetPara(StatusSeg, QueryTail),
   TweetPara(StatusSeg, <<>>), TweetPara(StatusesSeg, QueryTail)}

RECURSIVE JoinLines(_)
JoinLines(fs) ==
  IF Len(fs) = 1 THEN fs[1]
  ELSE fs[1] \o <<NL>> \o JoinLines(Tail(fs))

\* the rendered documents: up to MaxFrags blocks, one per line, and the
\* documents that are one directive with a list of up to MaxIds ids
Docs ==
  {JoinLines(fs) : fs \in UNION {[1..n -> Frags] : n \in 1..MaxFrags}}
  \cup {Directive(l) : l \in IdLists}

(* ------------------------------- state --------------------------------- *)
VARIABLES
  pc,               \* where getMdxSource (or the caller of replaceAsync) is
  contentHtml,      \* the text remark renders
  str,              \* replaceAsync: the text of the invocation under way
  regex,            \* replaceAsync: its pattern
  matches,          \* replaceAsync: the matched substrings of the first scan
  calls,            \* the resolver calls of the invocation, by match index
  finished,         \* the indices of the settled calls, in settling order
  resolver,         \* what the asyncFn under test answers, by call index
  replacedExamples, \* getMdxSource: result of the first replaceAsync
  replacedTweets,   \* getMdxSource: result of the second replaceAsync
  mdxSource,        \* getMdxSource: the compiled document, <<>> before
  out,              \* the text a replaceAsync called on its own returned
  error,            \* the error the awaited operation threw, "" if none
  log               \* what happened so far, in program order

vars == <<pc, contentHtml, str, regex, matches, calls, finished, resolver,
          replacedExamples, replacedTweets, mdxSource, out, error, log>>

ErrExamples == "Regex pattern failed to find examples to replace"
ErrTweet == "Regex pattern failed to find Twitter metadata to replace"
ErrShift == "Unable to shift string from promised data"
ErrStore == "example store lookup failed"
ErrTwitter == "twitter lookup failed"
ErrResolver == "asyncFn rejected"
ErrSerialize == "serialize failed"

Ev(ev, fn, k, key) == [ev |-> ev, fn |-> fn, k |-> k, key |-> key]

NoCall == [fn |-> "", match |-> <<>>, st |-> "waiting", names |-> <<>>,
           i |-> 0, data |-> <<>>, id |-> <<>>, value |-> <<>>, error |-> ""]

(* ------------------------------ resolvers ------------------------------ *)
\* getExamples up to its first await (lines 343-353)
StartExamples(match) ==
  LET raw == NamesExec(match)
  IN  IF raw = <<>>
      THEN [NoCall EXCEPT !.fn = "getExamples", !.match = match,
                          !.st = "rejected", !.error = ErrExamples]
      ELSE [NoCall EXCEPT !.fn = "getExamples", !.match = match,
                          !.names = Split(raw[1], <<>>), !.i = 1]

\* getTweetMetadata up to its await (lines 329-335)
StartTweet(match) ==
  LET id == TweetIdExec(match)
  IN  IF id = <<>>
      THEN [NoCall EXCEPT !.fn = "getTweetMetadata", !.match = match,
                          !.st = "rejected", !.error = ErrTweet]
      ELSE [NoCall EXCEPT !.fn = "getTweetMetadata", !.match = match,
                          !.id = id]

StartCall(fn, match) ==
  IF fn = "getExamples" THEN StartExamples(match)
  ELSE IF fn = "getTweetMetadata" THEN StartTweet(match)
  ELSE [NoCall EXCEPT !.fn = fn, !.match = match]

\* the key of the lookup a waiting call has issued, as text
LookupKey(c) ==
  IF c.fn = "getExamples"
  THEN LET n == ParseInt(c.names[c.i])
       IN  IF n = NaN THEN <<"NaN">> ELSE ToDigits(n)
  ELSE IF c.fn = "getTweetMetadata" THEN c.id[2]
  ELSE c.match

\* the template literal <Examples data={${JSON.stringify(data)}} />
ExamplesEmbed(data) ==
  <<"<Examples", " ", "data={">> \o JsonArray(data) \o <<"}", " ", "/>">>

\* "" + id for the array id that exec returned: its elements joined by ","
ArrayToString(id) == id[1] \o <<",">> \o id[2]

\* the concatenation of line 338: id, then JSON.stringify(tweetData);
\* [backtick] stands for the template quote character
TweetEmbed(id, tweetData) ==
  <<"<Tweet id='">> \o ArrayToString(id) \o <<"' metadata={[backtick]">>
  \o JsonTweet(tweetData) \o <<"[backtick]}", "/>">>

(* ----------------------------- replaceAsync ---------------------------- *)
\* the first scan: str.replace(regex, (match) => { matches.push(match) ... })
FirstScan(s, re) ==
  LET spans == ScanFrom(re, s, 1)
  IN  [k \in 1..Len(spans) |-> SubSeq(s, spans[k].from, spans[k].to)]

\* a variant that starts the call of the first match only
MapFirstCall(fn, ms) ==
  [k \in 1..(IF ms = <<>> THEN 0 ELSE 1) |-> StartCall(fn, ms[k])]

\* matches.map((match) => asyncFn(match)): every call runs, in match order,
\* up to its first await
MapCalls(fn, ms) == [k \in 1..Len(ms) |-> StartCall(fn, ms[k])]

RECURSIVE MapLog(_, _)
\* what the calls of matches.map do, in order
MapLog(cs, k) ==
  IF k > Len(cs) THEN <<>>
  ELSE <<Ev("call", cs[k].fn, k, <<>>)>>
       \o (IF cs[k].st = "rejected" THEN <<Ev("reject", cs[k].fn, k, <<>>)>>
           ELSE <<Ev("lookup", cs[k].fn, k, LookupKey(cs[k]))>>)
       \o MapLog(cs, k + 1)

RECURSIVE Settled(_, _)
\* the calls that are settled when matches.map returns
Settled(cs, k) ==
  IF k > Len(cs) THEN <<>>
  ELSE (IF cs[k].st = "waiting" THEN <<>> ELSE <<k>>) \o Settled(cs, k + 1)

\* a variant that collects the results in settling order
PromiseAllByFinish(cs, fin) ==
  LET rej == {n \in 1..Len(fin) : cs[fin[n]].st = "rejected"}
  IN  IF rej # {}
      THEN [st |-> "rejected", data |-> <<>>,
            error |-> cs[fin[Min(rej)]].error]
      ELSE IF \A k \in 1..Len(cs) : cs[k].st = "fulfilled"
      THEN [st |-> "fulfilled", error |-> "",
            data |-> [k \in 1..Len(cs) |-> cs[fin[k]].value]]
      ELSE [st |-> "pending", data |-> <<>>, error |-> ""]

\* a variant that turns a rejection into a result
PromiseAllCatch(cs, fin) ==
  IF \A k \in 1..Len(cs) : cs[k].st # "waiting"
  THEN [st |-> "fulfilled", error |-> "",
        data |-> [k \in 1..Len(cs) |->
                    IF cs[k].st = "rejected" THEN <<cs[k].error>>
                    ELSE cs[k].value]]
  ELSE [st |-> "pending", data |-> <<>>, error |-> ""]

\* Promise.all(promises): rejected with the first rejection, else fulfilled
\* with the results by index once every call is fulfilled
PromiseAll(cs, fin) ==
  LET rej == {n \in 1..Len(fin) : cs[fin[n]].st = "rejected"}
  IN  IF rej # {}
      THEN [st |-> "rejected", data |-> <<>>,
            error |-> cs[fin[Min(rej)]].error]
      ELSE IF \A k \in 1..Len(cs) : cs[k].st = "fulfilled"
      THEN [st |-> "fulfilled", error |-> "",
            data |-> [k \in 1..Len(cs) |-> cs[k].value]]
      ELSE [st |-> "pending", data |-> <<>>, error |-> ""]

RECURSIVE Shift(_, _, _, _)
\* the replacer of the second scan, match after match: data.shift(), and a
\* throw when what it yields is falsy (undefined or "")
Shift(s, spans, data, pos) ==
  IF spans = <<>> THEN [ok |-> TRUE, text |-> SubSeq(s, pos, Len(s))]
  ELSE IF data = <<>> \/ Head(data) = <<>> THEN [ok |-> FALSE, text |-> <<>>]
  ELSE LET rest == Shift(s, Tail(spans), Tail(data), Head(spans).to + 1)
       IN  [ok |-> rest.ok,
            text |-> IF rest.ok
                     THEN SubSeq(s, pos, Head(spans).from - 1) \o Head(data)
                          \o rest.text
                     ELSE <<>>]

\* a variant that takes the first result before it scans
SecondScanEager(s, re, data) ==
  IF data = <<>> THEN [ok |-> FALSE, text |-> <<>>]
  ELSE Shift(s, ScanFrom(re, s, 1), data, 1)

\* the second scan: str.replace(regex, () => { ... data.shift() ... })
SecondScan(s, re, data) == Shift(s, ScanFrom(re, s, 1), data, 1)

\* replaceAsync up to its await (lines 311-318), as the n-th invocation
BeginReplaceAsync(n, text, re, fn, before) ==
  LET ms == FirstScan(text, re)
      cs == MapCalls(fn, ms)
  IN  /\ str' = text
      /\ regex' = re
      /\ matches' = ms
      /\ calls' = cs
      /\ finished' = Settled(cs, 1)
      /\ log' = log \o before \o <<Ev("replaceAsync", "replaceAsync", n, <<fn>>)>>
                \o MapLog(cs, 1)

\* replaceAsync after its await (lines 318-325): what it returns or throws
ReplaceAsyncResult ==
  LET pa == PromiseAll(calls, finished)
      r == SecondScan(str, regex, pa.data)
  IN  IF pa.st = "rejected"
      THEN [ok |-> FALSE, text |-> <<>>, error |-> pa.error]
      ELSE IF r.ok THEN [ok |-> TRUE, text |-> r.text, error |-> ""]
      ELSE [ok |-> FALSE, text |-> <<>>, error |-> ErrShift]

ResultLog(n) ==
  IF PromiseAll(calls, finished).st = "rejected"
  THEN <<Ev("throw", "replaceAsync", n, <<>>)>>
  ELSE <<Ev("scan2", "replaceAsync", n, <<>>),
         Ev(IF ReplaceAsyncResult.ok THEN "return" ELSE "throw",
            "replaceAsync", n, <<>>)>>

(* ----------------------------- getMdxSource ---------------------------- *)
\* a variant that runs the social-post pass first
TweetsFirst == [regex |-> TweetRe, fn |-> "getTweetMetadata"]

\* the first replaceAsync of getMdxSource (lines 286-290)
FirstPass == [regex |-> ExamplesRe, fn |-> "getExamples"]

\* the second replaceAsync of getMdxSource (lines 293-297)
SecondPass == [regex |-> TweetRe, fn |-> "getTweetMetadata"]

Init ==
  /\ pc = "remark"
  /\ contentHtml \in Docs
  /\ str = <<>> /\ regex = "" /\ matches = <<>> /\ calls = <<>>
  /\ finished = <<>> /\ resolver = <<>>
  /\ replacedExamples = <<>> /\ replacedTweets = <<>> /\ mdxSource = <<>>
  /\ out = <<>> /\ error = "" /\ log = <<>>

\* remark has rendered the body: the links are rewritten and the first
\* replaceAsync runs up to its await (lines 271-290)
RemarkDone ==
  /\ pc = "remark"
  /\ LET replacedExternalLinks == ReplaceExternalLinks(contentHtml, 1)
         replacedInternalLinks == ReplaceInternalLinks(replacedExternalLinks, 1)
     IN  BeginReplaceAsync(1, replacedInternalLinks, FirstPass.regex,
                           FirstPass.fn,
                           <<Ev("rewriteExternal", "getMdxSource", 0, <<>>),
                             Ev("rewriteInternal", "getMdxSource", 0, <<>>)>>)
  /\ pc' = "examples"
  /\ UNCHANGED <<contentHtml, resolver, replacedExamples, replacedTweets,
                 mdxSource, out, error>>

\* prisma.example.findUnique of call k answers or fails; getExamples goes
\* on to its next lookup or returns (lines 352-361)
ExampleLookupDone(k, ok) ==
  /\ k \in 1..Len(calls)
  /\ calls[k].fn = "getExamples" /\ calls[k].st = "waiting"
  /\ LET c == calls[k]
         results == FindUnique(ParseInt(c.names[c.i]))
         data == Append(c.data, results)
         next == [c EXCEPT !.data = data, !.i = c.i + 1]
     IN  IF ~ok
         THEN /\ calls' = [calls EXCEPT ![k] =
                             [c EXCEPT !.st = "rejected", !.error = ErrStore]]
              /\ finished' = Append(finished, k)
              /\ log' = log \o <<Ev("fail", c.fn, k, LookupKey(c)),
                                 Ev("reject", c.fn, k, <<>>)>>
         ELSE IF c.i < Len(c.names)
         THEN /\ calls' = [calls EXCEPT ![k] = next]
              /\ finished' = finished
              /\ log' = log \o <<Ev("answer", c.fn, k, LookupKey(c)),
                                 Ev("lookup", c.fn, k, LookupKey(next))>>
         ELSE /\ calls' = [calls EXCEPT ![k] =
                             [c EXCEPT !.st = "fulfilled", !.data = data,
                                       !.value = ExamplesEmbed(data)]]
              /\ finished' = Append(finished, k)
              /\ log' = log \o <<Ev("answer", c.fn, k, LookupKey(c)),
                                 Ev("fulfil", c.fn, k, <<>>)>>
  /\ UNCHANGED <<pc, contentHtml, str, regex, matches, resolver,
                 replacedExamples, replacedTweets, mdxSource, out, error>>

\* getTweets of call k answers or fails; getTweetMetadata returns the
\* embed (lines 335-339)
TweetLookupDone(k, ok) ==
  /\ k \in 1..Len(calls)
  /\ calls[k].fn = "getTweetMetadata" /\ calls[k].st = "waiting"
  /\ LET c == calls[k]
         tweetData == GetTweets(c.id[2])
     IN  IF ~ok
         THEN /\ calls' = [calls EXCEPT ![k] =
                             [c EXCEPT !.st = "rejected",
                                       !.error = ErrTwitter]]
              /\ log' = log \o <<Ev("fail", c.fn, k, LookupKey(c)),
                                 Ev("reject", c.fn, k, <<>>)>>
         ELSE /\ calls' = [calls EXCEPT ![k] =
                             [c EXCEPT !.st = "fulfilled",
                                       !.value = TweetEmbed(c.id, tweetData)]]
              /\ log' = log \o <<Ev("answer", c.fn, k, LookupKey(c)),
                                 Ev("fulfil", c.fn, k, <<>>)>>
  /\ finished' = Append(finished, k)
  /\ UNCHANGED <<pc, contentHtml, str, regex, matches, resolver,
                 replacedExamples, replacedTweets, mdxSource, out, error>>

\* the first replaceAsync settles: getMdxSource throws, or takes
\* replacedExamples and runs the second replaceAsync up to its await
\* (lines 286-297)
ExamplesSettled ==
  /\ pc = "examples"
  /\ PromiseAll(calls, finished).st # "pending"
  /\ LET r == ReplaceAsyncResult
     IN  IF r.ok
         THEN /\ replacedExamples' = r.text
              /\ BeginReplaceAsync(2, r.text, SecondPass.regex, SecondPass.fn,
                                   ResultLog(1))
              /\ pc' = "tweets"
              /\ error' = error
         ELSE /\ pc' = "failed"
              /\ error' = r.error
              /\ log' = log \o ResultLog(1)
              /\ UNCHANGED <<str, regex, matches, calls, finished,
                             replacedExamples>>
  /\ UNCHANGED <<contentHtml, resolver, replacedTweets, mdxSource, out>>

\* the second replaceAsync settles: getMdxSource throws, or takes
\* replacedTweets and calls serialize (lines 293-300)
TweetsSettled ==
  /\ pc = "tweets"
  /\ PromiseAll(calls, finished).st # "pending"
  /\ LET r == ReplaceAsyncResult
     IN  IF r.ok
         THEN /\ replacedTweets' = r.text
              /\ pc' = "serialize"
              /\ error' = error
              /\ log' = log \o ResultLog(2)
                        \o <<Ev("serialize", "getMdxSource", 0, <<>>)>>
         ELSE /\ pc' = "failed"
              /\ error' = r.error
              /\ log' = log \o ResultLog(2)
              /\ UNCHANGED replacedTweets
  /\ UNCHANGED <<contentHtml, str, regex, matches, calls, finished, resolver,
                 replacedExamples, mdxSource, out>>

\* serialize answers or fails; getMdxSource returns mdxSource
\* (lines 300-302)
SerializeDone(ok) ==
  /\ pc = "serialize"
  /\ IF ok
     THEN /\ pc' = "done"
          /\ mdxSource' = <<[compiledSource |-> replacedTweets]>>
          /\ error' = error
     ELSE /\ pc' = "failed"
          /\ mdxSource' = mdxSource
          /\ error' = ErrSerialize
  /\ UNCHANGED <<contentHtml, str, regex, matches, calls, finished, resolver,
                 replacedExamples, replacedTweets, out, log>>

Next ==
  \/ RemarkDone
  \/ \E k \in 1..MaxFrags, ok \in BOOLEAN : ExampleLookupDone(k, ok)
  \/ \E k \in 1..MaxFrags, ok \in BOOLEAN : TweetLookupDone(k, ok)
  \/ ExamplesSettled
  \/ TweetsSettled
  \/ \E ok \in BOOLEAN : SerializeDone(ok)

Spec == Init /\ [][Next]_vars

(* ------------------- replaceAsync called on its own -------------------- *)
\* what an asyncFn may do: return a text, "" included, or throw
Replies ==
  {[ok |-> TRUE, text |-> <<"R1">>], [ok |-> TRUE, text |-> <<"R2">>],
   [ok |-> TRUE, text |-> <<>>], [ok |-> FALSE, text |-> <<>>]}

InitReplace ==
  /\ pc = "call"
  /\ str \in Docs
  /\ regex \in {ExamplesRe, TweetRe}
  /\ contentHtml = <<>> /\ matches = <<>> /\ calls = <<>>
  /\ finished = <<>> /\ resolver = <<>>
  /\ replacedExamples = <<>> /\ replacedTweets = <<>> /\ mdxSource = <<>>
  /\ out = <<>> /\ error = "" /\ log = <<>>

\* replaceAsync(str, regex, asyncFn) up to its await, for an asyncFn that
\* awaits once and then answers call k with resolver[k]
CallReplaceAsync ==
  /\ pc = "call"
  /\ resolver' \in [1..Len(FirstScan(str, regex)) -> Replies]
  /\ BeginReplaceAsync(1, str, regex, "asyncFn", <<>>)
  /\ pc' = "await"
  /\ UNCHANGED <<contentHtml, replacedExamples, replacedTweets, mdxSource,
                 out, error>>

\* call k of asyncFn settles
AsyncFnDone(k) ==
  /\ k \in 1..Len(calls)
  /\ calls[k].fn = "asyncFn" /\ calls[k].st = "waiting"
  /\ LET c == calls[k]
     IN  IF resolver[k].ok
         THEN /\ calls' = [calls EXCEPT ![k] =
                             [c EXCEPT !.st = "fulfilled",
                                       !.value = resolver[k].text]]
              /\ log' = log \o <<Ev("answer", c.fn, k, LookupKey(c)),
                                 Ev("fulfil", c.fn, k, <<>>)>>
         ELSE /\ calls' = [calls EXCEPT ![k] =
                             [c EXCEPT !.st = "rejected",
                                       !.error = ErrResolver]]
              /\ log' = log \o <<Ev("fail", c.fn, k, LookupKey(c)),
                                 Ev("reject", c.fn, k, <<>>)>>
  /\ finished' = Append(finished, k)
  /\ UNCHANGED <<pc, contentHtml, str, regex, matches, resolver,
                 replacedExamples, replacedTweets, mdxSource, out, error>>

\* replaceAsync settles: it returns the substituted text or throws
ReplaceAsyncSettled ==
  /\ pc = "await"
  /\ PromiseAll(calls, finished).st # "pending"
  /\ LET r == ReplaceAsyncResult
     IN  /\ pc' = IF r.ok THEN "returned" ELSE "thrown"
         /\ out' = r.text
         /\ error' = r.error
  /\ log' = log \o ResultLog(1)
  /\ UNCHANGED <<contentHtml, str, regex, matches, calls, finished, resolver,
                 replacedExamples, replacedTweets, mdxSource>>

NextReplace ==
  \/ CallReplaceAsync
  \/ \E k \in 1..MaxFrags : AsyncFnDone(k)
  \/ ReplaceAsyncSettled

SpecReplace == InitReplace /\ [][NextReplace]_vars

(* ------------------------------- claims -------------------------------- *)
LogIdx == 1..Len(log)
Spans == ScanFrom(regex, str, 1)
Settling == {"reject", "fulfil"}

RECURSIVE Splice(_, _)
\* str with its k-th and later matches replaced by what asyncFn answers
\* to the call of the same index, starting at position pos
Splice(k, pos) ==
  IF k > Len(Spans) THEN SubSeq(str, pos, Len(str))
  ELSE SubSeq(str, pos, Spans[k].from - 1) \o resolver[k].text
       \o Splice(k + 1, Spans[k].to + 1)

\* C1: when replaceAsync returns for a text with two or more matches, the
\* i-th match from the left is replaced by the answer to the call made on
\* the i-th match, in whatever order the calls settled
C1_OrderedSubstitution ==
  (pc = "returned" /\ Len(Spans) >= 2) => out = Splice(1, 1)

C1_Witness ==
  /\ pc = "returned" /\ Len(Spans) = 2 /\ finished = <<2, 1>>
  /\ resolver[1].text # resolver[2].text

\* C2: once a resolver call of a replaceAsync invocation is rejected, that
\* invocation returns no text, getMdxSource never reaches serialize or a
\* compiled document, and the rejected call is neither called nor looked
\* up again
C2_RejectionAborts ==
  \A p \in LogIdx :
    log[p].ev = "reject" =>
      /\ pc \notin {"serialize", "done"} /\ mdxSource = <<>>
      /\ \A q \in LogIdx :
           /\ (log[q].ev = "return" /\ log[q].fn = "replaceAsync"
               /\ log[q].k = (IF log[p].fn = "getExamples" THEN 1 ELSE 2))
              => FALSE
           /\ (q # p /\ log[q].fn = log[p].fn /\ log[q].k = log[p].k)
              => (q < p /\ log[q].ev \in {"call", "lookup", "answer", "fail"})
      /\ Cardinality({q \in LogIdx : log[q].ev = "call"
                        /\ log[q].fn = log[p].fn /\ log[q].k = log[p].k}) = 1

C2_Witness ==
  /\ pc = "failed" /\ Len(calls) = 2
  /\ calls[1].st = "fulfilled" /\ calls[2].st = "rejected"
  /\ error = calls[2].error

\* C3: when every resolver call succeeds, replaceAsync returns the text with
\* each match replaced by exactly the string its call answered, the empty
\* string included, and the rest unchanged
C3_EveryReplySubstituted ==
  (pc \in {"returned", "thrown"} /\ \A k \in 1..Len(Spans) : resolver[k].ok)
    => (pc = "returned" /\ out = Splice(1, 1))

\* C4: for a text without a match, replaceAsync calls the resolver zero
\* times, does not throw, and returns a text equal to its input
C4_NoMatchIdentity ==
  (pc \in {"await", "returned", "thrown"} /\ Spans = <<>>) =>
    /\ calls = <<>>
    /\ \A p \in LogIdx : log[p].ev # "call"
    /\ pc # "thrown"
    /\ pc = "returned" => out = str

C4_Witness == pc = "returned" /\ Spans = <<>> /\ out = str /\ Len(str) > 0

\* C5: a getExamples call on <Examples names=[id1,...,idk]/> collects the
\* store's answer for id1, ..., idk in list order, null for an id without a
\* record, is rejected only when a lookup itself fails, and returns the
\* embed of exactly these k entries
C5_ExamplesData ==
  \A k \in 1..Len(calls) : \A ids \in IdLists :
    (calls[k].fn = "getExamples" /\ calls[k].match = Directive(ids)) =>
      /\ Len(calls[k].data) <= Len(ids)
      /\ \A i \in 1..Len(calls[k].data) :
           calls[k].data[i] = (IF ids[i] \in StoredIds THEN [id |-> ids[i]]
                               ELSE Null)
      /\ calls[k].st = "rejected" => calls[k].error = ErrStore
      /\ calls[k].st = "fulfilled" =>
           /\ Len(calls[k].data) = Len(ids)
           /\ calls[k].value = ExamplesEmbed(calls[k].data)

C5_Witness ==
  \E k \in 1..Len(calls) :
    /\ calls[k].match = Directive(<<31, 3>>) /\ calls[k].st = "fulfilled"
    /\ calls[k].data = <<Null, [id |-> 3]>>

\* the documents whose only directive is <Examples/>
OnlyNoList ==
  contentHtml \in {NoListNoSpace, JoinLines(<<LinkPara, NoListNoSpace>>),
                   JoinLines(<<NoListNoSpace, LinkPara>>)}

\* C6: a compile of a body whose only directive is <Examples/> ends, unless
\* serialize itself fails, failed with the error of the Examples resolver:
\* it never completes with the directive left in
C6_NoListAborts ==
  (OnlyNoList /\ pc \in {"done", "failed"} /\ error # ErrSerialize)
    => (pc = "failed" /\ error = ErrExamples)

\* the social-post paragraphs with a /status/ segment, with and without a
\* query string
StatusParas == {TweetPara(StatusSeg, QueryTail), TweetPara(StatusSeg, <<>>)}

\* C7: for https://twitter.com/<handle>/status/<digits>, with or without a
\* query string, getTweetMetadata looks the post up by the digits and
\* emits a Tweet embed whose id attribute is the digits and nothing else
C7_TweetIdAttribute ==
  \A k \in 1..Len(calls) :
    (calls[k].fn = "getTweetMetadata" /\ calls[k].match \in StatusParas) =>
      /\ calls[k].error # ErrTweet
      /\ LookupKey(calls[k]) = TweetId
      /\ calls[k].st = "fulfilled" =>
           calls[k].value =
             <<"<Tweet id='">> \o TweetId \o <<"' metadata={[backtick]">>
             \o JsonTweet(GetTweets(TweetId)) \o <<"[backtick]}", "/>">>

\* C8: the id extraction succeeds on every paragraph the social-post
\* pattern matches: no getTweetMetadata call is rejected with the
\* extraction error and no compile fails with it
C8_ExtractionNeverFails ==
  /\ \A k \in 1..Len(calls) : calls[k].error # ErrTweet
  /\ error # ErrTweet

IsLookup(p, fn) == log[p].ev = "lookup" /\ log[p].fn = fn

\* C9: an example-store lookup is issued only after both link rewrites; a
\* social-metadata lookup only after the first replaceAsync has returned
\* and every example-store lookup was answered; none after the first
\* replaceAsync threw
C9_StageOrder ==
  /\ \A p \in LogIdx :
       IsLookup(p, "getExamples") =>
         \E q1, q2 \in 1..(p - 1) :
           q1 < q2 /\ log[q1].ev = "rewriteExternal"
           /\ log[q2].ev = "rewriteInternal"
  /\ \A p \in LogIdx :
       IsLookup(p, "getTweetMetadata") =>
         /\ \E r \in 1..(p - 1) : log[r] = Ev("return", "replaceAsync", 1, <<>>)
         /\ \A r \in LogIdx : log[r] # Ev("throw", "replaceAsync", 1, <<>>)
         /\ \A q \in LogIdx :
              IsLookup(q, "getExamples") =>
                \E a \in (q + 1)..(p - 1) :
                  log[a] = Ev("answer", "getExamples", log[q].k, log[q].key)

C9_Witness ==
  /\ pc = "tweets"
  /\ \E p, q \in LogIdx :
       IsLookup(p, "getExamples") /\ IsLookup(q, "getTweetMetadata")
  /\ str # contentHtml

\* the log positions of the calls of the invocation under way
CallsAt == {p \in LogIdx : log[p].ev = "call" /\ calls # <<>>
                           /\ log[p].fn = calls[1].fn}

\* C10 as stated: every invocation reaches its first lookup, and all are
\* started before any of them settles
C10_AllStartedBeforeAnySettles ==
  \A p \in LogIdx :
    log[p].ev = "call" =>
      /\ log[p + 1].ev = "lookup"
      /\ \A q \in LogIdx :
           (log[q].ev \in Settling /\ log[q].fn = log[p].fn) => p < q

\* C10: the resolver is invoked once per match, in match order; each
\* invocation is rejected at once by its extraction check, without a
\* lookup, or reaches its first lookup; no lookup is answered before all
\* invocations are started; the second scan starts only after all of them
\* are fulfilled
C10_FanOut ==
  /\ Len(calls) = Len(matches)
  /\ pc \notin {"remark", "call"} => Len(matches) = Len(Spans)
  /\ Cardinality(CallsAt) = Len(calls)
  /\ \A p, q \in CallsAt : p < q => log[p].k < log[q].k
  /\ \A p \in CallsAt :
       /\ calls[log[p].k].match = matches[log[p].k]
       /\ log[p + 1].ev = "reject" =>
            calls[log[p].k].error \in {ErrExamples, ErrTweet}
  /\ \A p \in LogIdx :
       log[p].ev = "call" =>
         /\ \/ log[p + 1] = [log[p] EXCEPT !.ev = "reject"]
               /\ \A q \in LogIdx : ~(IsLookup(q, log[p].fn)
                                      /\ log[q].k = log[p].k)
            \/ IsLookup(p + 1, log[p].fn) /\ log[p + 1].k = log[p].k
         /\ \A q \in LogIdx :
              (log[q].ev \in {"answer", "fail", "fulfil"}
               /\ log[q].fn = log[p].fn) => p < q
  /\ \A p \in LogIdx :
       log[p].ev = "scan2" =>
         \A c \in LogIdx :
           (log[c].ev = "call"
            /\ log[c].fn = (IF log[p].k = 1 THEN FirstPass.fn
                            ELSE SecondPass.fn))
             => \E f \in (c + 1)..(p - 1) :
                  log[f] = [log[c] EXCEPT !.ev = "fulfil"]

C10_Witness ==
  /\ pc = "examples" /\ Len(calls) = 2
  /\ calls[1].st = "waiting" /\ calls[2].st = "waiting"
====
